---------------------------- MODULE Spec2Model ----------------------------
(***************************************************************************)
(* Party-booking assistant: package catalog and pricing                    *)
(* (backend/packages.py), the agent tools (backend/agent.py), the Roller   *)
(* gateway client with its cached access token (backend/roller_client.py)  *)
(* the HTTP endpoints (backend/main.py) and the Streamlit frontend's chat  *)
(* and voice handling (app.py).                                            *)
(*                                                                         *)
(* Python strings that the code parses (dates, the private-room upgrade    *)
(* rule) are sequences of one-character strings; texts that are only       *)
(* built and searched (tool replies, chat responses, exception texts) are  *)
(* TLA+ strings, searched with SubSeq.  In both cases parsing and search   *)
(* are computed and not assumed.  The chat endpoint, the agent wrapper and *)
(* one turn of the language model with its tool calls are modelled in      *)
(* SpecChat.                                                               *)
(***************************************************************************)
EXTENDS Integers, Sequences, FiniteSets, TLC

VARIABLES
    quote,      \* pricing: the request and the result of calculate_total_price
    now,        \* time.time(), in whole seconds
    clients,    \* RollerClient instances: _access_token, _token_expires_at
    th,         \* per caller (thread): position and locals of the running call
    issued,     \* provider side: the token exchanges answered so far
    chat,       \* POST /chat: the request being served and its locals
    errlog,     \* the lines written to /tmp/backend_errors.log
    checked,    \* the requests check_availability has been called for so far
    hook,       \* POST /webhook/roller: the last payload and its answer
    outbox,     \* the mails handed to the mail service (email_service.py)
    front       \* app.py: st.session_state and the POST /chat requests sent

chatvars == <<chat, errlog, checked>>

sidevars == <<hook, outbox, front>>

vars == <<quote, now, clients, th, issued, chat, errlog, checked,
          hook, outbox, front>>

None == "None"

(***************************************************************************)
(* Bounds of the model.                                                    *)
(***************************************************************************)
MaxJumpers == 22
MaxSlots == 2
MaxExchanges == 3
MaxTicks == 13
MaxConcTicks == 2

(***************************************************************************)
(* Characters and string helpers (Python str methods used by the code).    *)
(***************************************************************************)
Digits == <<"0", "1", "2", "3", "4", "5", "6", "7", "8", "9">>

IsDigit(c) == \E i \in 1..10 : Digits[i] = c

DigitVal(c) == (CHOOSE i \in 1..10 : Digits[i] = c) - 1

\* str.startswith at offset i (1-based)
MatchAt(s, sub, i) ==
    /\ i + Len(sub) - 1 <= Len(s)
    /\ \A k \in 1..Len(sub) : s[i + k - 1] = sub[k]

\* `sub in s`
Contains(s, sub) == \E i \in 1..(Len(s) + 1) : MatchAt(s, sub, i)

\* s.split(ch) for a one-character separator: always at least one part
RECURSIVE SplitOn(_, _)
SplitOn(s, ch) ==
    IF \A i \in 1..Len(s) : s[i] # ch
    THEN <<s>>
    ELSE LET i == CHOOSE j \in 1..Len(s) :
                     /\ s[j] = ch
                     /\ \A k \in 1..(j - 1) : s[k] # ch
         IN  <<SubSeq(s, 1, i - 1)>> \o SplitOn(SubSeq(s, i + 1, Len(s)), ch)

\* s.split() : split on runs of blanks, no empty parts
RECURSIVE SplitWs(_)
SplitWs(s) ==
    IF s = <<>> THEN <<>>
    ELSE IF s[1] = " " THEN SplitWs(Tail(s))
    ELSE LET ends == {j \in 1..Len(s) : j = Len(s) \/ s[j + 1] = " "}
             e == CHOOSE j \in ends : \A k \in ends : j <= k
         IN  <<SubSeq(s, 1, e)>> \o SplitWs(SubSeq(s, e + 1, Len(s)))

\* int(s) for a string of decimal digits; "ValueError" otherwise
RECURSIVE DigitsValue(_)
DigitsValue(s) ==
    IF s = <<>> THEN 0
    ELSE 10 * DigitsValue(SubSeq(s, 1, Len(s) - 1)) + DigitVal(s[Len(s)])

ParseInt(s) ==
    IF s # <<>> /\ \A i \in 1..Len(s) : IsDigit(s[i])
    THEN DigitsValue(s)
    ELSE "ValueError"

\* str(n) for a natural number
RECURSIVE IntStr(_)
IntStr(n) ==
    IF n < 10 THEN Digits[n + 1]
    ELSE IntStr(n \div 10) \o Digits[(n % 10) + 1]

\* Python str values that are only searched are TLA+ strings; s[i-1:i+n-1]
\* is SubSeq(s, i, i + n - 1)
StrMatchAt(s, sub, i) ==
    /\ i + Len(sub) - 1 <= Len(s)
    /\ SubSeq(s, i, i + Len(sub) - 1) = sub

\* `sub in s`
StrContains(s, sub) == \E i \in 1..(Len(s) + 1) : StrMatchAt(s, sub, i)

\* str.startswith(prefix)
StartsWith(s, prefix) == StrMatchAt(s, prefix, 1)

\* the lower-case letter of each upper-case letter
LowerOf ==
    [A |-> "a", B |-> "b", C |-> "c", D |-> "d", E |-> "e", F |-> "f", G |-> "g",
     H |-> "h", I |-> "i", J |-> "j", K |-> "k", L |-> "l", M |-> "m", N |-> "n",
     O |-> "o", P |-> "p", Q |-> "q", R |-> "r", S |-> "s", T |-> "t", U |-> "u",
     V |-> "v", W |-> "w", X |-> "x", Y |-> "y", Z |-> "z"]

LowerChar(c) == IF c \in DOMAIN LowerOf THEN LowerOf[c] ELSE c

\* str.lower()
RECURSIVE Lower(_)
Lower(s) ==
    IF Len(s) = 0 THEN ""
    ELSE IF Len(s) = 1 THEN LowerChar(s)
    ELSE LET half == Len(s) \div 2
         IN  Lower(SubSeq(s, 1, half)) \o Lower(SubSeq(s, half + 1, Len(s)))

\* ', '.join(parts) for a list of fragments
RECURSIVE JoinComma(_)
JoinComma(parts) ==
    IF parts = <<>> THEN <<>>
    ELSE IF Len(parts) = 1 THEN <<parts[1]>>
    ELSE <<parts[1], ", ">> \o JoinComma(Tail(parts))

(***************************************************************************)
(* backend/packages.py : the catalog.                                      *)
(***************************************************************************)
PerJumper5 == <<"$", "5", " ", "p", "e", "r", " ", "j", "u", "m", "p", "e", "r">>

NoRestriction == <<>>

\* mutant: the catalog records Saturday alone for Glo Party
PACKAGESSaturdayOnly ==
    [ p \in {"Rookie", "All-Star", "MVP", "Glo Party"} |->
        [price_per_jumper |-> IF p = "Rookie" THEN 25
                              ELSE IF p = "All-Star" THEN 30
                              ELSE IF p = "MVP" THEN 35 ELSE 40,
         min_jumpers |-> 10,
         private_room_upgrade |-> PerJumper5,
         restrictions_days |-> IF p = "Glo Party" THEN <<"Saturday">>
                               ELSE NoRestriction] ]

PACKAGES ==
    [ p \in {"Rookie", "All-Star", "MVP", "Glo Party"} |->
        CASE p = "Rookie" ->
               [price_per_jumper |-> 25, min_jumpers |-> 10,
                private_room_upgrade |-> PerJumper5,
                restrictions_days |-> NoRestriction]
          [] p = "All-Star" ->
               [price_per_jumper |-> 30, min_jumpers |-> 10,
                private_room_upgrade |-> PerJumper5,
                restrictions_days |-> NoRestriction]
          [] p = "MVP" ->
               [price_per_jumper |-> 35, min_jumpers |-> 10,
                private_room_upgrade |-> PerJumper5,
                restrictions_days |-> NoRestriction]
          [] p = "Glo Party" ->
               [price_per_jumper |-> 40, min_jumpers |-> 10,
                private_room_upgrade |-> PerJumper5,
                restrictions_days |-> <<"Friday", "Saturday">>] ]

PackageNames == DOMAIN PACKAGES

\* package names a caller may send: the catalog plus names that are not in it
PackageInputs == PackageNames \cup {"Deluxe"}

(***************************************************************************)
(* backend/packages.py : calculate_total_price                             *)
(***************************************************************************)
\* int(upgrade_str.split("$")[1].split()[0])
UpgradeFee(upgrade_str) == ParseInt(SplitWs(SplitOn(upgrade_str, "$")[2])[1])

\* mutant: the per-jumper rule applied as a flat fee
RoomFeeFlat(pkg, num_jumpers, private_room) ==
    IF ~private_room THEN 0 ELSE UpgradeFee(pkg.private_room_upgrade)

RoomFee(pkg, num_jumpers, private_room) ==
    IF ~private_room THEN 0
    ELSE LET upgrade_str == pkg.private_room_upgrade
         IN  IF Contains(upgrade_str, <<"p", "e", "r", " ", "j", "u", "m", "p", "e", "r">>)
             THEN UpgradeFee(upgrade_str) * num_jumpers
             ELSE IF Contains(upgrade_str, <<"F", "l", "a", "t">>)
             THEN UpgradeFee(upgrade_str)
             ELSE 5 * num_jumpers

\* mutant: the minimum is tested one too low (num_jumpers < min_jumpers - 1)
MinimumRejectsLoose(num_jumpers, pkg) == num_jumpers < pkg.min_jumpers - 1

\* packages.py line 105
MinimumRejects(num_jumpers, pkg) == num_jumpers < pkg.min_jumpers

calculate_total_price(package_name, num_jumpers, private_room) ==
    IF package_name \notin PackageNames
    THEN [error |-> <<"Package '", package_name, "' not found">>]
    ELSE LET pkg == PACKAGES[package_name]
         IN  IF MinimumRejects(num_jumpers, pkg)
             THEN [error |-> <<"Minimum ", pkg.min_jumpers,
                               " jumpers required for ", package_name, " package">>]
             ELSE LET base_price == pkg.price_per_jumper * num_jumpers
                      room_fee == RoomFee(pkg, num_jumpers, private_room)
                      total == base_price + room_fee
                  IN  [package |-> package_name,
                       num_jumpers |-> num_jumpers,
                       base_price |-> base_price,
                       private_room |-> private_room,
                       room_fee |-> room_fee,
                       total |-> total,
                       breakdown |->
                         [package_price |-> <<"$", pkg.price_per_jumper, " x ",
                                              num_jumpers, " = $", base_price>>,
                          room_upgrade |-> IF room_fee > 0 THEN <<"$", room_fee>>
                                           ELSE <<"None">>,
                          total |-> <<"$", total>>]]

(***************************************************************************)
(* backend/agent.py : the calculate_price tool                             *)
(***************************************************************************)
calculate_price(package_name, num_jumpers, private_room) ==
    LET result == calculate_total_price(package_name, num_jumpers, private_room)
    IN  IF "error" \in DOMAIN result
        THEN <<"Error: ">> \o result.error
        ELSE <<"Price Breakdown:">> \o result.breakdown.package_price
             \o <<"Private Room: ">> \o result.breakdown.room_upgrade
             \o <<"Total: ">> \o result.breakdown.total

(***************************************************************************)
(* Dates: datetime.strptime(date, "%Y-%m-%d") and strftime("%A"), as used  *)
(* by the check_availability tool.                                         *)
(***************************************************************************)
ValueError == [raised |-> "ValueError"]

Raises(x) == x.raised = "ValueError"

IsLeap(y) == (y % 4 = 0) /\ ((y % 100 # 0) \/ (y % 400 = 0))

DaysInMonth(y, m) ==
    IF m = 2 THEN (IF IsLeap(y) THEN 29 ELSE 28)
    ELSE IF m \in {4, 6, 9, 11} THEN 30 ELSE 31

\* days in the year before the first of month m
RECURSIVE DaysBeforeMonth(_, _)
DaysBeforeMonth(y, m) ==
    IF m = 1 THEN 0 ELSE DaysBeforeMonth(y, m - 1) + DaysInMonth(y, m - 1)

\* proleptic Gregorian ordinal, 0001-01-01 is day 1
ToOrdinal(y, m, d) ==
    LET y1 == y - 1
    IN  y1 * 365 + (y1 \div 4) - (y1 \div 100) + (y1 \div 400)
        + DaysBeforeMonth(y, m) + d

DayNames == <<"Monday", "Tuesday", "Wednesday", "Thursday", "Friday",
              "Saturday", "Sunday">>

\* date_obj.strftime("%A")
DayName(dt) == DayNames[((ToOrdinal(dt.year, dt.month, dt.day) + 6) % 7) + 1]

\* %m : 1[0-2] | 0[1-9] | [1-9]
MonthField(f) ==
    \/ Len(f) = 2 /\ f[1] = "1" /\ f[2] \in {"0", "1", "2"}
    \/ Len(f) = 2 /\ f[1] = "0" /\ IsDigit(f[2]) /\ f[2] # "0"
    \/ Len(f) = 1 /\ IsDigit(f[1]) /\ f[1] # "0"

\* %d : 3[01] | [12]\d | 0[1-9] | [1-9] | " "[1-9]
DayField(f) ==
    \/ Len(f) = 2 /\ f[1] = "3" /\ f[2] \in {"0", "1"}
    \/ Len(f) = 2 /\ f[1] \in {"1", "2"} /\ IsDigit(f[2])
    \/ Len(f) = 2 /\ f[1] \in {"0", " "} /\ IsDigit(f[2]) /\ f[2] # "0"
    \/ Len(f) = 1 /\ IsDigit(f[1]) /\ f[1] # "0"

\* %Y : exactly four digits
YearField(f) == Len(f) = 4 /\ \A i \in 1..4 : IsDigit(f[i])

FieldValue(f) == IF f[1] = " " THEN DigitsValue(Tail(f)) ELSE DigitsValue(f)

\* datetime.strptime(date, "%Y-%m-%d"): a date, or ValueError when the text
\* does not match the format or names no calendar day
Strptime(date) ==
    LET parts == SplitOn(date, "-")
    IN  IF Len(parts) # 3 THEN ValueError
        ELSE IF ~(YearField(parts[1]) /\ MonthField(parts[2]) /\ DayField(parts[3]))
        THEN ValueError
        ELSE LET y == FieldValue(parts[1])
                 m == FieldValue(parts[2])
                 d == FieldValue(parts[3])
             IN  IF y < 1 \/ d > DaysInMonth(y, m) THEN ValueError
                 ELSE [raised |-> None, year |-> y, month |-> m, day |-> d]

(***************************************************************************)
(* Date strings a caller may send.                                         *)
(***************************************************************************)
TwoDigits(n) == <<Digits[(n \div 10) + 1], Digits[(n % 10) + 1]>>

FourDigits(n) == TwoDigits(n \div 100) \o TwoDigits(n % 100)

\* "YYYY-MM-DD", zero padded
Iso(y, m, d) == FourDigits(y) \o <<"-">> \o TwoDigits(m) \o <<"-">> \o TwoDigits(d)

\* unpadded month and day, e.g. "2025-1-17"
Unpadded(y, m, d) ==
    FourDigits(y) \o <<"-">>
    \o (IF m < 10 THEN <<Digits[m + 1]>> ELSE TwoDigits(m)) \o <<"-">>
    \o (IF d < 10 THEN <<Digits[d + 1]>> ELSE TwoDigits(d))

DateInputs ==
    {Iso(2025, 1, d) : d \in 13..19}
    \cup {Iso(y, m, d) : y \in {2024, 2025}, m \in {2, 12}, d \in {1, 28, 29, 30, 31}}
    \cup {Unpadded(2025, 1, 17), Unpadded(2025, 1, 5),
          Iso(2025, 13, 1), Iso(2025, 0, 10), Iso(2025, 1, 0), Iso(0, 1, 17),
          Iso(2025, 1, 17) \o <<"x">>,
          TwoDigits(1) \o <<"/">> \o TwoDigits(17) \o <<"/">> \o FourDigits(2025),
          <<"t", "o", "m", "o", "r", "r", "o", "w">>,
          <<>>}

(***************************************************************************)
(* backend/agent.py : validation done by the check_availability tool       *)
(* before it calls the gateway (lines 45-62).  <<>> means no objection.    *)
(***************************************************************************)
Pass == <<>>

InvalidDateText == "Error: Invalid date format. Please use YYYY-MM-DD format."

RestrictedDayText ==
    "Error: Glo Party is only available on Friday and Saturday nights. "

\* mutant: the ValueError of strptime is swallowed and the check passes
GloPartyDateCheckSwallow(date) ==
    LET date_obj == Strptime(date)
    IN  IF Raises(date_obj) THEN Pass
        ELSE IF DayName(date_obj) \notin {"Friday", "Saturday"}
        THEN <<RestrictedDayText, DayName(date_obj), " is not available.">>
        ELSE Pass

\* agent.py lines 56-62
GloPartyDateCheck(date) ==
    LET date_obj == Strptime(date)
    IN  IF Raises(date_obj) THEN <<InvalidDateText>>
        ELSE IF DayName(date_obj) \notin {"Friday", "Saturday"}
        THEN <<RestrictedDayText, DayName(date_obj), " is not available.">>
        ELSE Pass

ToolValidate(date, package_name, num_jumpers) ==
    IF package_name \notin PackageNames
    THEN <<"Error: '", package_name,
           "' is not a valid package. Available packages: ">>
         \o JoinComma(<<"Rookie", "All-Star", "MVP", "Glo Party">>)
    ELSE IF num_jumpers < PACKAGES[package_name].min_jumpers
    THEN <<"Error: Minimum ", PACKAGES[package_name].min_jumpers,
           " jumpers required for ", package_name,
           " package. You specified ", num_jumpers, ".">>
    ELSE IF package_name = "Glo Party"
    THEN GloPartyDateCheck(date)
    ELSE Pass

(***************************************************************************)
(* backend/roller_client.py : RollerClient                                 *)
(***************************************************************************)
NoToken == 0
TokenBuffer == 300
DefaultExpiresIn == 3600
TickSeconds == 300
StartTime == 1000

\* RollerClient.__init__
NewClient == [access_token |-> NoToken, token_expires_at |-> 0, expiry_from |-> 0]

Shared == "roller_client"
Threads == {"t1", "t2"}
ClientIds == {Shared} \cup Threads

\* mutant: the 5 minute buffer is left out
TokenFreshNoBuffer(c, t) == c.access_token # NoToken /\ t < c.token_expires_at

\* line 26: self._access_token and time.time() < self._token_expires_at - 300
TokenFresh(c, t) ==
    c.access_token # NoToken /\ t < c.token_expires_at - TokenBuffer

\* token_data.get("expires_in", 3600)
ExpiresIn(token_data) ==
    IF "expires_in" \in DOMAIN token_data THEN token_data.expires_in
    ELSE DefaultExpiresIn

\* mutant: a failed exchange drops the cached token
CacheOnFailureCleared(c) == NewClient

\* lines 46-47: the except clause of _get_access_token assigns nothing; the
\* statements that store the answer (lines 41-44) come after the ones that
\* raise (lines 38-39)
CacheOnFailure(c) == c

\* subclasses of requests.exceptions.RequestException raised by a failed call
RequestExceptions == {"ConnectionError", "HTTPError", "Timeout"}

AuthErrorText == "Failed to authenticate with Roller API: "

\* mutant: the gateway methods catch every Exception
GatewayCatchesAll(exc) == TRUE

\* `except requests.exceptions.RequestException` of the gateway methods
GatewayCatches(exc) == exc \in RequestExceptions

\* the slots a provider answer may hold
ProviderSlots ==
    {[time |-> "10:00", available |-> TRUE],
     [time |-> "12:00", available |-> FALSE],
     [available |-> TRUE]}

RECURSIVE SeqsUpTo(_, _)
SeqsUpTo(S, n) ==
    IF n = 0 THEN {<<>>}
    ELSE LET shorter == SeqsUpTo(S, n - 1)
         IN  shorter \cup {Append(q, x) : q \in shorter, x \in S}

ProviderSlotLists == SeqsUpTo(ProviderSlots, MaxSlots)

\* slot.get("time", "")
SlotTime(slot) == IF "time" \in DOMAIN slot THEN slot.time ELSE ""

\* mutant: the time labels are listed latest slot first
AvailabilityFromProviderReversed(available_slots) ==
    IF available_slots # <<>>
    THEN LET n == Len(available_slots)
             times == [i \in 1..n |-> SlotTime(available_slots[n + 1 - i])]
         IN  [available |-> TRUE,
              slots |-> available_slots,
              times |-> times,
              message |-> <<"Available time slots: ">> \o JoinComma(times)]
    ELSE [available |-> FALSE,
          slots |-> <<>>,
          times |-> <<>>,
          message |-> <<"No available slots for this date">>]

\* lines 95-101: the query of check_availability; `if product_id:` and
\* `if num_jumpers:` leave out a parameter that is None, empty or 0
AvailabilityParams(date, product_id, num_jumpers) ==
    LET with_product == product_id # None /\ product_id # ""
        with_capacity == num_jumpers # 0
    IN  CASE with_product /\ with_capacity ->
               [date |-> date, productId |-> product_id, capacity |-> num_jumpers]
          [] with_product /\ ~with_capacity ->
               [date |-> date, productId |-> product_id]
          [] ~with_product /\ with_capacity ->
               [date |-> date, capacity |-> num_jumpers]
          [] OTHER -> [date |-> date]

\* lines 112-127: the result built from the provider's answer
AvailabilityFromProvider(available_slots) ==
    IF available_slots # <<>>
    THEN LET times == [i \in 1..Len(available_slots) |-> SlotTime(available_slots[i])]
         IN  [available |-> TRUE,
              slots |-> available_slots,
              times |-> times,
              message |-> <<"Available time slots: ">> \o JoinComma(times)]
    ELSE [available |-> FALSE,
          slots |-> <<>>,
          times |-> <<>>,
          message |-> <<"No available slots for this date">>]

\* mutant: the fallback reports no availability and carries no marker
MockAvailabilityUnmarked ==
    [available |-> FALSE, slots |-> <<>>, times |-> <<>>,
     message |-> <<"No available slots for this date">>]

\* lines 132-141: the fallback of check_availability
MockAvailability ==
    [available |-> TRUE,
     slots |-> <<[time |-> "14:00", available |-> TRUE],
                 [time |-> "16:00", available |-> TRUE],
                 [time |-> "18:00", available |-> TRUE]>>,
     times |-> <<"2:00 PM", "4:00 PM", "6:00 PM">>,
     message |-> <<"Available time slots: ">>
                 \o JoinComma(<<"2:00 PM", "4:00 PM", "6:00 PM">>)
                 \o <<" (mock data)">>]

MockCheckoutUrl == "https://checkout.roller.app/mock-payment-link"

\* mutant: the fallback identifier carries no reserved prefix
MockBookingUnprefixed(t) ==
    [success |-> TRUE,
     booking_id |-> "BK-" \o IntStr(t),
     checkout_url |-> MockCheckoutUrl,
     booking |-> [status |-> "pending_payment"]]

\* lines 198-203: the fallback of create_booking; int(time.time()) is t
MockBooking(t) ==
    [success |-> TRUE,
     booking_id |-> "MOCK-" \o IntStr(t),
     checkout_url |-> MockCheckoutUrl,
     booking |-> [status |-> "pending_payment"]]

\* dict.get(key): None when the key is absent
DictGet(d, key) == IF key \in DOMAIN d THEN d[key] ELSE None

\* `a or b` on values that are None or text
PyOr(a, b) == IF a = None \/ a = "" THEN b ELSE a

\* lines 189-194: the result built from the provider's booking answer
BookingFromProvider(answer) ==
    [success |-> TRUE,
     booking_id |-> DictGet(answer, "id"),
     checkout_url |-> PyOr(DictGet(answer, "checkout_url"),
                           DictGet(answer, "payment_url")),
     booking |-> answer]

\* what the provider may answer to a booking, a status query, a product query
ProviderBookings ==
    {[id |-> "BK-1", checkout_url |-> "https://checkout.roller.app/pay/BK-1"],
     [id |-> "BK-2", payment_url |-> "https://checkout.roller.app/pay/BK-2"],
     [status |-> "received"]}

ProviderStatuses == {[status |-> "pending_payment"], [status |-> "paid"]}

ProviderProducts == {<<>>, <<"party_package">>}

GatewayMethods ==
    {"check_availability", "create_booking", "get_booking_status", "get_products"}

\* the except branch of each gateway method
GatewayFallback(method, exc, t) ==
    CASE method = "check_availability" -> MockAvailability
      [] method = "create_booking" -> MockBooking(t)
      [] method = "get_booking_status" -> [status |-> "unknown", error |-> exc]
      [] method = "get_products" -> <<>>

\* the try branch of each gateway method, given the provider's answer
GatewayResult(method, answer) ==
    CASE method = "check_availability" -> AvailabilityFromProvider(answer)
      [] method = "create_booking" -> BookingFromProvider(answer)
      [] method = "get_booking_status" -> answer
      [] method = "get_products" -> answer

ProviderAnswers(method) ==
    CASE method = "check_availability" -> ProviderSlotLists
      [] method = "create_booking" -> ProviderBookings
      [] method = "get_booking_status" -> ProviderStatuses
      [] method = "get_products" -> ProviderProducts

Endpoint(method) ==
    CASE method = "check_availability" -> "availability"
      [] method = "create_booking" -> "bookings"
      [] method = "get_booking_status" -> "bookings/id"
      [] method = "get_products" -> "products"

\* what the request of each gateway method carries: the params of lines
\* 65 and 95-101, the booking_data of lines 166-179 (the fields a call of
\* the model has); the callers of check_availability pass no product_id
RequestQuery(call) ==
    CASE call.gw = "check_availability" ->
           AvailabilityParams(call.date, None, call.num_jumpers)
      [] call.gw = "create_booking" ->
           [package |-> call.package_name, num_jumpers |-> call.num_jumpers,
            date |-> call.date]
      [] call.gw = "get_booking_status" -> <<>>
      [] call.gw = "get_products" -> [type |-> "party_package"]

(***************************************************************************)
(* What the caller of the gateway makes of its result.                     *)
(***************************************************************************)
\* agent.py lines 155-167: the reply of the create_booking tool (its leading
\* symbol left out); None is formatted as the text None
BookingReply(result) ==
    IF result.success
    THEN "Booking created successfully!\n\nBooking ID: " \o result.booking_id
         \o "\n\nPlease complete your payment to secure your party slot:\n"
         \o result.checkout_url
         \o "\n\nAfter payment, you'll receive a confirmation email with all "
         \o "the details, waiver links, and instructions."
    ELSE "Error creating booking: "
         \o (IF "error" \in DOMAIN result THEN result.error ELSE "Unknown error")

\* agent.py line 71, main.py line 146, agent.py lines 155-167
EntranceReturn(op, result) ==
    CASE op = "tool_check_availability" -> result.message
      [] op = "tool_create_booking" -> BookingReply(result)
      [] OTHER -> result

(***************************************************************************)
(* Callers.  Each caller runs one call at a time; a call is a sequence of  *)
(* steps, and steps of different callers interleave.                       *)
(***************************************************************************)
IdleThread == [pc |-> "idle"]

InFlight == {t \in Threads : th[t].pc \notin {"idle", "done"}}

\* a call starts only if the provider can still answer its token exchange
CanStart(t) == th[t].pc = "idle" /\ Len(issued) + Cardinality(InFlight) < MaxExchanges

NewCall(op, gw, cl, date, package_name, num_jumpers) ==
    [op |-> op, gw |-> gw, cl |-> cl, date |-> date,
     package_name |-> package_name, num_jumpers |-> num_jumpers,
     net |-> <<>>, auth_failed |-> FALSE, request_failed |-> FALSE]

Returned(v) == [kind |-> "return", value |-> v]

\* agent.py lines 33-71: the check_availability tool, up to the gateway call
ToolCheckAvailability(t, date, package_name, num_jumpers) ==
    /\ CanStart(t)
    /\ LET verdict == ToolValidate(date, package_name, num_jumpers)
           call == NewCall("tool_check_availability", "check_availability",
                           Shared, date, package_name, num_jumpers)
       IN  th' = [th EXCEPT ![t] =
                    IF verdict # Pass
                    THEN [pc |-> "done", result |-> Returned(verdict)] @@ call
                    ELSE [pc |-> "tok_check"] @@ call]
    /\ UNCHANGED <<sidevars, chatvars, quote, now, clients, issued>>

\* main.py lines 133-146: GET /availability, on a RollerClient of its own
EndpointAvailability(t, date, package_name, num_jumpers) ==
    /\ CanStart(t)
    /\ clients' = [clients EXCEPT ![t] = NewClient]
    /\ th' = [th EXCEPT ![t] =
                [pc |-> "tok_check"] @@
                NewCall("endpoint_availability", "check_availability",
                        t, date, package_name, num_jumpers)]
    /\ UNCHANGED <<sidevars, chatvars, quote, now, issued>>

\* agent.py lines 113-153: the create_booking tool, up to the gateway call
ToolCreateBooking(t, date, package_name, num_jumpers) ==
    /\ CanStart(t)
    /\ th' = [th EXCEPT ![t] =
                [pc |-> "tok_check"] @@
                NewCall("tool_create_booking", "create_booking",
                        Shared, date, package_name, num_jumpers)]
    /\ UNCHANGED <<sidevars, chatvars, quote, now, clients, issued>>

\* a direct call of get_booking_status, get_products or _get_access_token
\* on the shared client
GatewayCall(t, method) ==
    /\ CanStart(t)
    /\ th' = [th EXCEPT ![t] =
                [pc |-> "tok_check"] @@
                NewCall(method, method, Shared, <<>>, "", 0)]
    /\ UNCHANGED <<sidevars, chatvars, quote, now, clients, issued>>

\* where a call continues once _get_access_token has returned `token`
WithToken(call, token) ==
    IF call.gw = "_get_access_token"
    THEN [pc |-> "done", result |-> Returned(token)] @@ call
    ELSE [pc |-> "request", token |-> token] @@ call

\* roller_client.py lines 26-27
TokCheck(t) ==
    /\ th[t].pc = "tok_check"
    /\ LET c == clients[th[t].cl]
           call == [seen |-> [access_token |-> c.access_token,
                              token_expires_at |-> c.token_expires_at,
                              at |-> now]] @@ th[t]
       IN  th' = [th EXCEPT ![t] =
                    IF TokenFresh(c, now)
                    THEN WithToken(call, c.access_token)
                    ELSE [pc |-> "tok_post"] @@ call]
    /\ UNCHANGED <<sidevars, chatvars, quote, now, clients, issued>>

\* lines 38-40: the exchange succeeds; the provider issues its next token,
\* with an expires_in (<<seconds>>) or without one (<<>>)
TokExchangeOk(t, expires_in) ==
    /\ th[t].pc = "tok_post"
    /\ Len(issued) < MaxExchanges
    /\ LET serial == Len(issued) + 1
           token_data == IF expires_in = <<>>
                         THEN [access_token |-> serial]
                         ELSE [access_token |-> serial, expires_in |-> expires_in[1]]
       IN  /\ issued' = Append(issued, token_data)
           /\ th' = [th EXCEPT ![t] =
                       [pc |-> "tok_store_token", token_data |-> token_data,
                        net |-> Append(th[t].net, "token")] @@ th[t]]
    /\ UNCHANGED <<sidevars, chatvars, quote, now, clients>>

\* lines 38-39 raise, lines 46-47 re-raise as a plain Exception, which then
\* meets the except clause of the gateway method that asked for the headers
TokExchangeFail(t, exc) ==
    /\ th[t].pc = "tok_post"
    /\ LET call == [net |-> Append(th[t].net, "token"),
                    auth_failed |-> TRUE] @@ th[t]
       IN  th' = [th EXCEPT ![t] =
                    IF call.gw \in GatewayMethods /\ GatewayCatches("Exception")
                    THEN LET r == GatewayFallback(call.gw, "Exception", now)
                         IN  [pc |-> "done", gw_result |-> r,
                              result |-> Returned(EntranceReturn(call.op, r))] @@ call
                    ELSE [pc |-> "done",
                          result |-> [kind |-> "raise", exc |-> "Exception",
                                      text |-> <<AuthErrorText, exc>>]] @@ call]
    /\ clients' = [clients EXCEPT ![th[t].cl] = CacheOnFailure(@)]
    /\ UNCHANGED <<sidevars, chatvars, quote, now, issued>>

\* line 41
TokStoreToken(t) ==
    /\ th[t].pc = "tok_store_token"
    /\ clients' = [clients EXCEPT
                     ![th[t].cl].access_token = th[t].token_data.access_token]
    /\ th' = [th EXCEPT ![t] = [pc |-> "tok_store_expiry"] @@ th[t]]
    /\ UNCHANGED <<sidevars, chatvars, quote, now, issued>>

\* lines 43-44
TokStoreExpiry(t) ==
    /\ th[t].pc = "tok_store_expiry"
    /\ clients' = [clients EXCEPT
                     ![th[t].cl].token_expires_at = now + ExpiresIn(th[t].token_data),
                     ![th[t].cl].expiry_from = th[t].token_data.access_token]
    /\ th' = [th EXCEPT ![t] = [pc |-> "tok_return", stored_at |-> now] @@ th[t]]
    /\ UNCHANGED <<sidevars, chatvars, quote, now, issued>>

\* line 45: return self._access_token
TokReturn(t) ==
    /\ th[t].pc = "tok_return"
    /\ th' = [th EXCEPT ![t] = WithToken(th[t], clients[th[t].cl].access_token)]
    /\ UNCHANGED <<sidevars, chatvars, quote, now, clients, issued>>

\* the request of a gateway method is answered with a 2xx and a body
RequestAnswered(t, answer) ==
    /\ th[t].pc = "request"
    /\ LET r == GatewayResult(th[t].gw, answer)
       IN  th' = [th EXCEPT ![t] =
                    [pc |-> "done", gw_result |-> r, answer |-> answer,
                     query |-> RequestQuery(th[t]),
                     net |-> Append(th[t].net, Endpoint(th[t].gw)),
                     result |-> Returned(EntranceReturn(th[t].op, r))] @@ th[t]]
    /\ UNCHANGED <<sidevars, chatvars, quote, now, clients, issued>>

RequestOk(t) ==
    /\ th[t].pc = "request"
    /\ \E answer \in ProviderAnswers(th[t].gw) : RequestAnswered(t, answer)

\* the request fails (unreachable, timeout, non-2xx): a RequestException
RequestFail(t, exc) ==
    /\ th[t].pc = "request"
    /\ LET call == [net |-> Append(th[t].net, Endpoint(th[t].gw)),
                    query |-> RequestQuery(th[t]),
                    request_failed |-> TRUE] @@ th[t]
       IN  th' = [th EXCEPT ![t] =
                    IF GatewayCatches(exc)
                    THEN LET r == GatewayFallback(call.gw, exc, now)
                         IN  [pc |-> "done", gw_result |-> r,
                              result |-> Returned(EntranceReturn(call.op, r))] @@ call
                    ELSE [pc |-> "done",
                          result |-> [kind |-> "raise", exc |-> exc,
                                      text |-> <<exc>>]] @@ call]
    /\ UNCHANGED <<sidevars, chatvars, quote, now, clients, issued>>

\* the call has come to its end: a value to return or an exception to raise
Done(t) == th[t].pc = "done"

\* the call has returned to its caller
Finish(t) ==
    /\ Done(t)
    /\ th' = [th EXCEPT ![t] = IdleThread]
    /\ UNCHANGED <<sidevars, chatvars, quote, now, clients, issued>>

\* time passes
Tick ==
    /\ now < StartTime + MaxTicks * TickSeconds
    /\ now' = now + TickSeconds
    /\ UNCHANGED <<sidevars, chatvars, quote, clients, th, issued>>

(***************************************************************************)
(* backend/main.py : POST /webhook/roller.  No function of                 *)
(* email_service.py is called from anywhere in the repository, so no       *)
(* action adds to outbox.                                                  *)
(***************************************************************************)
\* the payloads the provider may post: with and without event or booking_id
WebhookPayloads ==
    {[event |-> "payment.success", booking_id |-> "BK-1"],
     [event |-> "payment.failed", booking_id |-> "BK-1"],
     [event |-> "payment.success"],
     [booking_id |-> "MOCK-1000"]}

\* main.py lines 186-201
roller_webhook(payload) ==
    /\ LET event_type == DictGet(payload, "event")
           booking_id == DictGet(payload, "booking_id")
       IN  hook' = [pc |-> "answered", payload |-> payload,
                    response |-> IF event_type = "payment.success"
                                 THEN [status |-> "processed",
                                       booking_id |-> booking_id]
                                 ELSE [status |-> "received"]]
    /\ UNCHANGED <<chatvars, quote, now, clients, th, issued, outbox, front>>

\* app.py lines 28-47: st.session_state of a new session; the keys read with
\* .get(key, "") start as the empty text; posts, sends and rerun are the
\* POST /chat requests sent, the transcripts submitted with Send, and
\* whether st.rerun() has asked for another run
NewSession ==
    [messages |-> <<>>, booking_created |-> FALSE, checkout_url |-> None,
     voice_mode |-> FALSE, voice_input |-> "", voice_transcript |-> "",
     voice_input_to_send |-> "", last_voice_input |-> "",
     posts |-> <<>>, sends |-> <<>>, rerun |-> FALSE]

JumperInputs == {9, 10, 12}

\* dates a booking may be asked for: a Wednesday, a Friday, no date at all
BookingDates ==
    {Iso(2025, 1, 15), Iso(2025, 1, 17), <<"t", "o", "m", "o", "r", "r", "o", "w">>}

Init ==
    /\ quote = [pc |-> "idle"]
    /\ now = StartTime
    /\ clients = [c \in ClientIds |-> NewClient]
    /\ th = [t \in Threads |-> IdleThread]
    /\ issued = <<>>
    /\ chat = [pc |-> "idle"]
    /\ errlog = {}
    /\ checked = {}
    /\ hook = [pc |-> "idle"]
    /\ outbox = {}
    /\ front = NewSession

(***************************************************************************)
(* Availability and the other gateway methods, one call at a time.         *)
(***************************************************************************)
NextAvail ==
    \E t \in {"t1"} :
       \/ /\ th[t].pc = "idle"
          /\ \E d \in DateInputs, p \in PackageInputs, n \in JumperInputs :
                ToolCheckAvailability(t, d, p, n)
       \/ /\ th[t].pc = "idle"
          /\ \E d \in DateInputs, p \in PackageInputs, n \in JumperInputs :
                EndpointAvailability(t, d, p, n)
       \/ /\ th[t].pc = "idle"
          /\ \E d \in BookingDates, p \in PackageInputs, n \in JumperInputs :
                ToolCreateBooking(t, d, p, n)
       \/ \E m \in {"get_booking_status", "get_products"} : GatewayCall(t, m)
       \/ TokCheck(t)
       \/ TokExchangeOk(t, <<>>)
       \/ \E exc \in RequestExceptions : TokExchangeFail(t, exc)
       \/ TokStoreToken(t)
       \/ TokStoreExpiry(t)
       \/ TokReturn(t)
       \/ RequestOk(t)
       \/ \E exc \in RequestExceptions : RequestFail(t, exc)
       \/ Finish(t)

SpecAvail == Init /\ [][NextAvail]_vars

(***************************************************************************)
(* The token cache of the shared client: _get_access_token checked          *)
(* directly, with time passing; one caller at a time (SpecToken) and two   *)
(* callers whose steps interleave (SpecConc).                              *)
(***************************************************************************)
ExpiresInAnswers == {<<>>, <<600>>}

TokenSteps(t) ==
    \/ GatewayCall(t, "_get_access_token")
    \/ TokCheck(t)
    \/ \E e \in ExpiresInAnswers : TokExchangeOk(t, e)
    \/ \E exc \in RequestExceptions : TokExchangeFail(t, exc)
    \/ TokStoreToken(t)
    \/ TokStoreExpiry(t)
    \/ TokReturn(t)
    \/ Finish(t)

NextToken == Tick \/ TokenSteps("t1")

SpecToken == Init /\ [][NextToken]_vars

\* time passes while callers race
ConcTick == now < StartTime + MaxConcTicks * TickSeconds /\ Tick

NextConc == ConcTick \/ \E t \in Threads : TokenSteps(t)

SpecConc == Init /\ [][NextConc]_vars

(***************************************************************************)
(* Bookings: create_booking called by two callers on the shared client     *)
(* (one after the other, or with their steps interleaved), and the         *)
(* provider's payment webhook.                                             *)
(***************************************************************************)
BookingSteps(t) ==
    \/ /\ th[t].pc = "idle"
       /\ ToolCreateBooking(t, Iso(2025, 1, 17), "MVP", 12)
    \/ TokCheck(t)
    \/ TokExchangeOk(t, <<>>)
    \/ TokExchangeFail(t, "ConnectionError")
    \/ TokStoreToken(t)
    \/ TokStoreExpiry(t)
    \/ TokReturn(t)
    \/ RequestOk(t)
    \/ RequestFail(t, "ConnectionError")
    \/ Finish(t)

NextBook ==
    \/ \E t \in Threads : BookingSteps(t)
    \/ \E payload \in WebhookPayloads : roller_webhook(payload)
    \/ ConcTick

SpecBook == Init /\ [][NextBook]_vars

(***************************************************************************)
(* A provider that may never answer.  requests.post and requests.get are   *)
(* checked without timeout=, so a call waits until the provider answers or  *)
(* the connection fails; the client's own steps always go on, the          *)
(* provider's answers are not promised.                                    *)
(***************************************************************************)
\* the answers of the provider to an outstanding call: a body, a refused
\* connection, a non-2xx status
ProviderAnswer(t) ==
    \/ \E e \in ExpiresInAnswers : TokExchangeOk(t, e)
    \/ \E exc \in {"ConnectionError", "HTTPError"} : TokExchangeFail(t, exc)
    \/ RequestOk(t)
    \/ \E exc \in {"ConnectionError", "HTTPError"} : RequestFail(t, exc)

\* the steps the client takes by itself
ClientStep(t) ==
    \/ TokCheck(t)
    \/ TokStoreToken(t)
    \/ TokStoreExpiry(t)
    \/ TokReturn(t)
    \/ Finish(t)

NextHang ==
    \/ \E m \in GatewayMethods \cup {"_get_access_token"} : GatewayCall("t1", m)
    \/ ClientStep("t1")
    \/ ProviderAnswer("t1")
    \/ ConcTick

SpecHang == Init /\ [][NextHang]_vars /\ WF_vars(ClientStep("t1"))

(***************************************************************************)
(* backend/agent.py : create_agent_executor and AgentWrapper.invoke        *)
(***************************************************************************)
HumanMessage(content) == [type |-> "human", content |-> content]

AIMessage(content) == [type |-> "ai", content |-> content]

\* mutant: turns of every role are kept, unknown roles as human messages
ConvertHistoryKeepAll(conversation_history) ==
    [i \in 1..Len(conversation_history) |->
        IF conversation_history[i].role = "assistant"
        THEN AIMessage(conversation_history[i].content)
        ELSE HumanMessage(conversation_history[i].content)]

\* agent.py lines 224-239: the loop over conversation_history
RECURSIVE ConvertHistory(_)
ConvertHistory(conversation_history) ==
    IF conversation_history = <<>> THEN <<>>
    ELSE LET n == Len(conversation_history)
             chat_history == ConvertHistory(SubSeq(conversation_history, 1, n - 1))
             msg == conversation_history[n]
         IN  IF msg.role = "user"
             THEN Append(chat_history, HumanMessage(msg.content))
             ELSE IF msg.role = "assistant"
             THEN Append(chat_history, AIMessage(msg.content))
             ELSE chat_history

\* agent.py line 366
XaiKeyMissingText ==
    "XAI_API_KEY not found in environment variables. "
    \o "Please set it in your .env file."

\* agent.py lines 405-406
InvokeMessages(chat_history, input) == Append(chat_history, HumanMessage(input))

\* agent.py line 442
EmptyOutputText == "I'm sorry, I couldn't generate a response. Please try again."

\* agent.py lines 414-444, for the dict with messages that the graph returns
ExtractOutput(result) ==
    LET last_msg == result.messages[Len(result.messages)]
        output == last_msg.content
    IN  IF output = "" THEN EmptyOutputText ELSE output

\* agent.py line 450
ErrorOutput(text) == "I encountered an error: " \o text \o ". Please try again."

(***************************************************************************)
(* backend/main.py : POST /chat                                            *)
(***************************************************************************)
Whitespace == {" ", "\t", "\n", "\r"}

\* where r'https?://[^\s]+' can match in s
UrlStarts(s) ==
    {i \in 1..Len(s) :
        \E scheme \in {"http://", "https://"} :
           /\ StrMatchAt(s, scheme, i)
           /\ i + Len(scheme) <= Len(s)
           /\ SubSeq(s, i + Len(scheme), i + Len(scheme)) \notin Whitespace}

\* re.search(r'https?://[^\s]+', response_text): the leftmost match, up to
\* the next whitespace; None without a match
UrlSearch(response_text) ==
    LET starts == UrlStarts(response_text)
        n == Len(response_text)
    IN  IF starts = {} THEN None
        ELSE LET i == CHOOSE k \in starts : \A j \in starts : k <= j
                 stops == {k \in i..n : SubSeq(response_text, k, k) \in Whitespace}
                          \cup {n + 1}
                 e == CHOOSE k \in stops : \A j \in stops : k <= j
             IN  SubSeq(response_text, i, e - 1)

\* mutant: the two phrases are looked for as written, case and all
BookingCreatedCaseSensitive(response_text) ==
    \/ StrContains(response_text, "checkout")
    \/ StrContains(response_text, "booking created")

\* main.py line 100
BookingCreated(response_text) ==
    LET lowered == Lower(response_text)
    IN  \/ StrContains(lowered, "checkout")
        \/ StrContains(lowered, "booking created")

\* main.py lines 96-115
ChatResponse(response_text) ==
    LET booking_created == BookingCreated(response_text)
    IN  [status |-> 200,
         response |-> response_text,
         booking_created |-> booking_created,
         checkout_url |-> IF booking_created THEN UrlSearch(response_text)
                          ELSE None]

\* main.py lines 127-130
ChatErrorResponse(text) ==
    [status |-> 500, detail |-> "Error processing chat: " \o text]

(***************************************************************************)
(* One chat turn.  The handlers are `async def` and block in their calls,  *)
(* so chat requests are served one after the other; the tool of a turn     *)
(* runs as caller t1 on the shared roller_client.  The language model is   *)
(* outside the program: what it proposes or answers is a free choice.      *)
(***************************************************************************)
Turn(role, content) == [role |-> role, content |-> content]

\* conversation_history values a caller may send (None or [] is <<>>)
HistoryInputs ==
    {<<>>,
     <<Turn("system", "test mode"),
       Turn("user", "MVP for 12 jumpers on 2025-01-17, how much is it?"),
       Turn("assistant", "That is $420 in total. Shall I book it?")>>,
     <<Turn("user", "Yes, go ahead and book it"),
       Turn("assistant", "Which time slot would you like?")>>}

MessageInputs == {"What packages do you have?", "Yes, please book it!"}

ToolCall(name, date, package_name, num_jumpers) ==
    [name |-> name, date |-> date, package_name |-> package_name,
     num_jumpers |-> num_jumpers]

\* the tool calls the language model may propose
ModelToolCalls ==
    {ToolCall("check_availability", Iso(2025, 1, 17), "MVP", 12),
     ToolCall("create_booking", Iso(2025, 1, 17), "MVP", 12),
     ToolCall("create_booking", Iso(2025, 1, 15), "Glo Party", 9)}

\* what the language model may answer without a tool call
ModelTexts ==
    {"", "We have four packages: Rookie, All-Star, MVP and Glo Party.",
     "CHECKOUT here:\thttps://pay.example/a\nor http://pay.example/b",
     "See https://altitudehuntsville.com for our hours."}

\* str(e) of the exceptions a call of the language model may raise
ModelErrors ==
    {"Connection error.", "Error code: 401 - Incorrect API key provided"}

\* the provider's answers during a chat turn: no slot or one slot, a booking
ChatProviderAnswers(method) ==
    IF method = "check_availability"
    THEN {<<>>, <<[time |-> "10:00", available |-> TRUE]>>}
    ELSE ProviderAnswers(method)

MaxToolCalls == 2

\* main.py lines 68-80
ChatRequest(message, conversation_history, xai_api_key) ==
    /\ chat.pc = "idle"
    /\ chat' = [pc |-> "create_agent", message |-> message,
                conversation_history |-> conversation_history,
                xai_api_key |-> xai_api_key]
    /\ UNCHANGED <<sidevars, quote, now, clients, th, issued, errlog, checked>>

\* main.py line 82, agent.py lines 212-454
CreateAgentExecutor ==
    /\ chat.pc = "create_agent"
    /\ LET chat_history == ConvertHistory(chat.conversation_history)
       IN  chat' = IF ~chat.xai_api_key
                   THEN [pc |-> "raised", exc |-> XaiKeyMissingText] @@ chat
                   ELSE [pc |-> "invoke", chat_history |-> chat_history] @@ chat
    /\ UNCHANGED <<sidevars, quote, now, clients, th, issued, errlog, checked>>

\* main.py line 92, agent.py lines 402-411: graph.invoke is entered
AgentInvoke ==
    /\ chat.pc = "invoke"
    /\ LET messages == InvokeMessages(chat.chat_history, chat.message)
       IN  chat' = [pc |-> "model", handed |-> messages, messages |-> messages,
                    steps |-> 0, failure |-> <<>>] @@ chat
    /\ UNCHANGED <<sidevars, quote, now, clients, th, issued, errlog, checked>>

\* the language model proposes a tool call, which the graph runs
ModelCallsTool(call) ==
    /\ chat.pc = "model"
    /\ chat.steps < MaxToolCalls
    /\ chat' = [pc |-> "tool", call |-> call, steps |-> chat.steps + 1,
                messages |-> Append(chat.messages,
                                    [type |-> "ai", content |-> "",
                                     tool_call |-> call])] @@ chat
    /\ checked' = IF call.name = "check_availability"
                  THEN checked \cup {[date |-> call.date,
                                      package_name |-> call.package_name,
                                      num_jumpers |-> call.num_jumpers]}
                  ELSE checked
    /\ UNCHANGED <<sidevars, quote, now, clients, th, issued, errlog>>

\* the graph hands the proposed call to the tool
ToolStart(t) ==
    /\ chat.pc = "tool"
    /\ th[t].pc = "idle"
    /\ LET c == chat.call
       IN  IF c.name = "check_availability"
           THEN ToolCheckAvailability(t, c.date, c.package_name, c.num_jumpers)
           ELSE ToolCreateBooking(t, c.date, c.package_name, c.num_jumpers)

\* the tool returns; its reply goes back to the language model
ToolReturns(t) ==
    /\ chat.pc = "tool"
    /\ Done(t)
    /\ th[t].result.kind = "return"
    /\ chat' = [pc |-> "model",
                messages |-> Append(chat.messages,
                                    [type |-> "tool", name |-> chat.call.name,
                                     mock |-> th[t].request_failed,
                                     content |-> th[t].result.value])] @@ chat
    /\ th' = [th EXCEPT ![t] = IdleThread]
    /\ UNCHANGED <<sidevars, quote, now, clients, issued, errlog, checked>>

\* the tool raises and graph.invoke raises with it: agent.py lines 445-450
ToolRaises(t) ==
    /\ chat.pc = "tool"
    /\ Done(t)
    /\ th[t].result.kind = "raise"
    /\ LET text == th[t].result.text[1] \o th[t].result.text[2]
       IN  chat' = [pc |-> "invoked", output |-> ErrorOutput(text),
                    failure |-> <<text>>] @@ chat
    /\ th' = [th EXCEPT ![t] = IdleThread]
    /\ UNCHANGED <<sidevars, quote, now, clients, issued, errlog, checked>>

\* the language model answers: agent.py lines 413-444
ModelAnswers(text) ==
    /\ chat.pc = "model"
    /\ LET result == [messages |-> Append(chat.messages, AIMessage(text))]
       IN  chat' = [pc |-> "invoked", output |-> ExtractOutput(result),
                    failure |-> IF text = "" THEN <<"">> ELSE <<>>] @@ chat
    /\ UNCHANGED <<sidevars, quote, now, clients, th, issued, errlog, checked>>

\* the language model answers with the reply of the tool that has just run
ModelRelaysTool ==
    /\ chat.pc = "model"
    /\ chat.messages[Len(chat.messages)].type = "tool"
    /\ chat.messages[Len(chat.messages)].name = "create_booking"
    /\ ModelAnswers(chat.messages[Len(chat.messages)].content)

\* the call of the language model raises: agent.py lines 445-450
ModelRaises(text) ==
    /\ chat.pc = "model"
    /\ chat' = [pc |-> "invoked", output |-> ErrorOutput(text),
                failure |-> <<text>>] @@ chat
    /\ UNCHANGED <<sidevars, quote, now, clients, th, issued, errlog, checked>>

\* main.py lines 96-117
ChatRespond ==
    /\ chat.pc = "invoked"
    /\ chat' = [pc |-> "responded", response |-> ChatResponse(chat.output)] @@ chat
    /\ UNCHANGED <<sidevars, quote, now, clients, th, issued, errlog, checked>>

\* main.py lines 118-130
ChatError ==
    /\ chat.pc = "raised"
    /\ errlog' = errlog \cup {"Error in chat endpoint: " \o chat.exc}
    /\ chat' = [pc |-> "responded", response |-> ChatErrorResponse(chat.exc)] @@ chat
    /\ UNCHANGED <<sidevars, quote, now, clients, th, issued, checked>>

\* the response has been sent
ChatDone ==
    /\ chat.pc = "responded"
    /\ chat' = [pc |-> "idle"]
    /\ UNCHANGED <<sidevars, quote, now, clients, th, issued, errlog, checked>>

NextChat ==
    \/ /\ chat.pc = "idle"
       /\ \E m \in MessageInputs, h \in HistoryInputs, k \in BOOLEAN :
             ChatRequest(m, h, k)
    \/ CreateAgentExecutor
    \/ AgentInvoke
    \/ \E call \in ModelToolCalls : ModelCallsTool(call)
    \/ \E text \in ModelTexts : ModelAnswers(text)
    \/ ModelRelaysTool
    \/ \E text \in ModelErrors : ModelRaises(text)
    \/ ToolStart("t1")
    \/ TokCheck("t1")
    \/ TokExchangeOk("t1", <<>>)
    \/ \E exc \in RequestExceptions : TokExchangeFail("t1", exc)
    \/ TokStoreToken("t1")
    \/ TokStoreExpiry("t1")
    \/ TokReturn("t1")
    \/ /\ th["t1"].pc = "request"
       /\ \E answer \in ChatProviderAnswers(th["t1"].gw) :
             RequestAnswered("t1", answer)
    \/ \E exc \in RequestExceptions : RequestFail("t1", exc)
    \/ ToolReturns("t1")
    \/ ToolRaises("t1")
    \/ ChatError
    \/ ChatRespond
    \/ ChatDone

SpecChat == Init /\ [][NextChat]_vars

(***************************************************************************)
(* app.py : the Streamlit frontend.  Every interaction runs the script     *)
(* from top to bottom on st.session_state; a run is one action.  The       *)
(* backend is outside this part: what POST /chat answers is a free choice  *)
(* among a plain reply, the reply of a booking, and no connection.         *)
(***************************************************************************)
MaxPosts == 3

\* transcripts the speech recognition may hold; none is blank or padded, so
\* .strip() leaves them as they are
Transcripts == {"Book the MVP package for Friday"}

BackendReplies ==
    {[kind |-> "ok",
      data |-> ChatResponse("We have four packages: Rookie, All-Star, MVP and Glo Party.")],
     [kind |-> "ok",
      data |-> ChatResponse(BookingReply(BookingFromProvider(
                  [id |-> "BK-1",
                   checkout_url |-> "https://checkout.roller.app/pay/BK-1"])))],
     [kind |-> "ConnectionError"]}

\* app.py lines 120-123 (the leading symbol left out)
ConnectErrorText ==
    "Cannot connect to backend at http://localhost:8000. "
    \o "Is the backend running? Error: ConnectionError"

\* app.py line 773
NoResponseText == "I'm sorry, I couldn't get a response. Please try again."

\* app.py lines 73-137: the session after the call and the text returned
send_message(ss, message, reply) ==
    LET history == [i \in 1..Len(ss.messages) |->
                      Turn(ss.messages[i].role, ss.messages[i].content)]
        posted == [ss EXCEPT !.posts =
                      Append(@, [message |-> message,
                                 conversation_history |-> history])]
    IN  IF reply.kind = "ok"
        THEN LET created == reply.data.booking_created
                 url == reply.data.checkout_url
             IN  [ss |-> [posted EXCEPT
                            !.booking_created = @ \/ created,
                            !.checkout_url =
                               IF created /\ url # None /\ url # "" THEN url
                               ELSE @],
                  text |-> reply.data.response]
        ELSE [ss |-> posted, text |-> ConnectErrorText]

\* app.py lines 725-785: the transcript is sent, then st.rerun()
VoiceProcess(ss, user_message, reply) ==
    LET taken == [ss EXCEPT !.last_voice_input = user_message,
                            !.voice_input = "",
                            !.voice_input_to_send = "",
                            !.voice_mode = TRUE,
                            !.messages = Append(@, Turn("user", user_message))]
        sent == send_message(taken, user_message, reply)
        response == IF sent.text # "" THEN sent.text ELSE NoResponseText
    IN  [sent.ss EXCEPT !.messages = Append(@, Turn("assistant", response)),
                        !.last_voice_input = "",
                        !.rerun = TRUE]

\* app.py lines 804-862: the prompt from voice_input or from st.chat_input
ChatSection(ss, chat_input, reply) ==
    LET from_voice == ss.voice_mode /\ ss.voice_input # ""
        prompt == IF from_voice THEN ss.voice_input ELSE chat_input
        cleared == IF from_voice THEN [ss EXCEPT !.voice_input = ""] ELSE ss
    IN  IF prompt = None \/ prompt = "" THEN cleared
        ELSE LET shown == [cleared EXCEPT
                             !.messages = Append(@, Turn("user", prompt))]
                 sent == send_message(shown, prompt, reply)
             IN  [sent.ss EXCEPT
                    !.messages = Append(@, Turn("assistant", sent.text))]

\* one run of the script: lines 281-289 (the send_transcript query
\* parameter), 706-725 (what voice mode processes), then the chat section
\* unless st.rerun() has ended the run
ScriptRun(ss, send_transcript, chat_input, reply) ==
    LET started == [ss EXCEPT !.rerun = FALSE]
        stored == IF started.voice_mode /\ send_transcript # ""
                  THEN [started EXCEPT !.voice_transcript = send_transcript,
                                       !.voice_input = send_transcript,
                                       !.voice_input_to_send = send_transcript]
                  ELSE started
        voice_input_to_process ==
            IF stored.voice_input_to_send # "" THEN stored.voice_input_to_send
            ELSE stored.voice_transcript
    IN  IF /\ stored.voice_mode
           /\ voice_input_to_process # ""
           /\ voice_input_to_process # stored.last_voice_input
        THEN VoiceProcess(stored, voice_input_to_process, reply)
        ELSE ChatSection(stored, chat_input, reply)

FrontCanRun == Len(front.posts) < MaxPosts

FrontUnchanged ==
    UNCHANGED <<chatvars, quote, now, clients, th, issued, hook, outbox>>

\* the user submits a prompt in st.chat_input
ChatInput(prompt, reply) ==
    /\ FrontCanRun
    /\ ~front.rerun
    /\ front' = ScriptRun(front, "", prompt, reply)
    /\ FrontUnchanged

\* the Send button of voice mode: the page is loaded with the transcript in
\* the send_transcript query parameter
SendTranscript(transcript, reply) ==
    /\ FrontCanRun
    /\ ~front.rerun
    /\ front.voice_mode
    /\ front' = ScriptRun([front EXCEPT !.sends = Append(@, transcript)],
                          transcript, None, reply)
    /\ FrontUnchanged

\* app.py lines 149-150: the voice mode toggle is flipped
ToggleVoice(reply) ==
    /\ FrontCanRun
    /\ ~front.rerun
    /\ front' = ScriptRun([front EXCEPT !.voice_mode = ~@], "", None, reply)
    /\ FrontUnchanged

\* a run with no new input: the one st.rerun() asked for, or any other
\* interaction with the page
Rerun(reply) ==
    /\ FrontCanRun
    /\ front' = ScriptRun(front, "", None, reply)
    /\ FrontUnchanged

NextFront ==
    \E reply \in BackendReplies :
       \/ \E prompt \in MessageInputs : ChatInput(prompt, reply)
       \/ \E transcript \in Transcripts : SendTranscript(transcript, reply)
       \/ ToggleVoice(reply)
       \/ Rerun(reply)

SpecFront == Init /\ [][NextFront]_vars

(***************************************************************************)
(* Pricing specification: a request is drawn, calculate_total_price runs.  *)
(***************************************************************************)
PriceRequest ==
    /\ quote.pc = "idle"
    /\ \E p \in PackageInputs, n \in 0..MaxJumpers, r \in BOOLEAN :
          quote' = [pc |-> "checked", package_name |-> p, num_jumpers |-> n,
                    private_room |-> r]
    /\ UNCHANGED <<sidevars, chatvars, now, clients, th, issued>>

PriceCompute ==
    /\ quote.pc = "checked"
    /\ quote' = [quote EXCEPT !.pc = "done"] @@
                [result |-> calculate_total_price(quote.package_name,
                                quote.num_jumpers, quote.private_room),
                 reply |-> calculate_price(quote.package_name,
                                quote.num_jumpers, quote.private_room)]
    /\ UNCHANGED <<sidevars, chatvars, now, clients, th, issued>>

NextPrice == PriceRequest \/ PriceCompute

SpecPrice == Init /\ [][NextPrice]_vars

\* C1: for every catalog package P and count C >= P.min_jumpers the quote is
\* no error, base_price = P.price_per_jumper * C, room_fee is 0 without the
\* private room and 5 * C with it, and total = base_price + room_fee
\* (MVP, 20, private room: 700 / 100 / 800).
C1_QuoteArithmetic ==
    (/\ quote.pc = "done"
     /\ quote.package_name \in PackageNames
     /\ quote.num_jumpers >= PACKAGES[quote.package_name].min_jumpers)
    => LET r == quote.result
           P == PACKAGES[quote.package_name]
           C == quote.num_jumpers
       IN  /\ "error" \notin DOMAIN r
           /\ r.base_price = P.price_per_jumper * C
           /\ r.room_fee = (IF quote.private_room THEN 5 * C ELSE 0)
           /\ r.total = r.base_price + r.room_fee
           /\ (quote.package_name = "MVP" /\ C = 20 /\ quote.private_room
                  => r.base_price = 700 /\ r.room_fee = 100 /\ r.total = 800)

C1_Witness ==
    /\ quote.pc = "done"
    /\ quote.package_name = "MVP"
    /\ quote.num_jumpers = 20
    /\ quote.private_room
    /\ quote.result.total = 800

\* C2: for every catalog package P and count C < P.min_jumpers the result is
\* an error that names exactly P.min_jumpers and carries no price field; for
\* a name outside the catalog it is the unknown-package error, also without
\* a price; the calculate_price tool relays the error text unchanged.
C2_ErrorsCarryNoPrice ==
    quote.pc = "done" =>
      LET r == quote.result
          unknown == quote.package_name \notin PackageNames
          below == /\ quote.package_name \in PackageNames
                   /\ quote.num_jumpers < PACKAGES[quote.package_name].min_jumpers
      IN  /\ unknown =>
                /\ DOMAIN r = {"error"}
                /\ r.error = <<"Package '", quote.package_name, "' not found">>
          /\ below =>
                /\ DOMAIN r = {"error"}
                /\ r.error[1] = "Minimum "
                /\ r.error[2] = PACKAGES[quote.package_name].min_jumpers
                /\ r.error[4] = quote.package_name
                /\ quote.reply = <<"Error: ">> \o r.error

C2_Witness ==
    /\ quote.pc = "done"
    /\ quote.package_name = "Glo Party"
    /\ quote.num_jumpers = 9
    /\ quote.result.error[2] = 10

(***************************************************************************)
(* Claims about availability checks and the gateway (SpecAvail).           *)
(***************************************************************************)
AvailabilityEntrances == {"tool_check_availability", "endpoint_availability"}

\* the request breaks a catalog rule: unknown package, too few jumpers, or a
\* Glo Party date that is a day other than Friday or Saturday
InvalidRequest(c) ==
    \/ c.package_name \notin PackageNames
    \/ /\ c.package_name \in PackageNames
       /\ c.num_jumpers < PACKAGES[c.package_name].min_jumpers
    \/ /\ c.package_name = "Glo Party"
       /\ ~Raises(Strptime(c.date))
       /\ DayName(Strptime(c.date)) \notin {"Friday", "Saturday"}

HasMockMarker(message) == \E i \in 1..Len(message) : message[i] = " (mock data)"

\* C3: an availability check that enters through the check_availability tool
\* or through GET /availability with an unknown package, a count below the
\* minimum or a Glo Party date that is not a Friday or Saturday contacts
\* neither the token endpoint nor the availability endpoint.
C3_InvalidNeverReachesProvider ==
    \A t \in Threads :
       (/\ Done(t)
        /\ th[t].op \in AvailabilityEntrances
        /\ InvalidRequest(th[t]))
       => th[t].net = <<>>

\* C4: for Glo Party with a valid headcount the check_availability tool
\* answers a well-formed date that is not a Friday or Saturday with the
\* restricted-day error, goes on to the provider for a Friday or Saturday
\* (2025-01-17), and answers a date that strptime rejects with the
\* invalid-date error, without contacting the provider.
C4_GloPartyDayGate ==
    \A t \in Threads :
       (/\ Done(t)
        /\ th[t].op = "tool_check_availability"
        /\ th[t].package_name = "Glo Party"
        /\ th[t].num_jumpers >= PACKAGES["Glo Party"].min_jumpers)
       => LET date_obj == Strptime(th[t].date)
          IN  IF Raises(date_obj)
              THEN /\ th[t].result = Returned(<<InvalidDateText>>)
                   /\ th[t].net = <<>>
              ELSE IF DayName(date_obj) \in {"Friday", "Saturday"}
              THEN /\ th[t].net # <<>>
                   /\ th[t].date # Iso(2025, 1, 15)
              ELSE /\ th[t].result.kind = "return"
                   /\ th[t].result.value[1] = RestrictedDayText
                   /\ th[t].result.value[2] = DayName(date_obj)
                   /\ th[t].net = <<>>
                   /\ th[t].date # Iso(2025, 1, 17)
                   /\ (th[t].date = Iso(2025, 1, 15)
                         => th[t].result.value[2] = "Wednesday")

C4_Witness ==
    \E t \in Threads :
       /\ Done(t)
       /\ th[t].op = "tool_check_availability"
       /\ th[t].package_name = "Glo Party"
       /\ th[t].num_jumpers = 12
       /\ th[t].date = Iso(2025, 1, 17)
       /\ th[t].net = <<"token", "availability">>

\* C5: for every package the check_availability tool rejects a date that
\* does not parse: the provider is not contacted, and when package and
\* headcount are valid the reply is the invalid-date error.
C5_MalformedDateRejectedForEveryPackage ==
    \A t \in Threads :
       (/\ Done(t)
        /\ th[t].op = "tool_check_availability"
        /\ Raises(Strptime(th[t].date)))
       => /\ th[t].net = <<>>
          /\ ~InvalidRequest(th[t])
                => th[t].result = Returned(<<InvalidDateText>>)

\* C9: when the token exchange fails during a gateway method, the method
\* returns nothing (no fallback result is built): the authentication
\* error is raised to its caller.
C9_AuthFailureNotMasked ==
    \A t \in Threads :
       (Done(t) /\ th[t].auth_failed)
       => /\ th[t].result.kind = "raise"
          /\ th[t].result.text[1] = AuthErrorText
          /\ "gw_result" \notin DOMAIN th[t]

C9_Witness ==
    \E t \in Threads :
       /\ Done(t)
       /\ th[t].auth_failed
       /\ th[t].gw = "create_booking"
       /\ th[t].result.kind = "raise"

\* C10: when the availability request fails with a token in hand,
\* check_availability returns the fixed fallback: available, the slots
\* 2:00 PM, 4:00 PM, 6:00 PM, and a message with the "(mock data)" marker;
\* a result built from a provider answer never carries the marker.
C10_AvailabilityFallback ==
    \A t \in Threads :
       (Done(t) /\ th[t].gw = "check_availability")
       => /\ th[t].request_failed
               => /\ th[t].result.kind = "return"
                  /\ "gw_result" \in DOMAIN th[t]
                  /\ th[t].gw_result.available
                  /\ th[t].gw_result.times = <<"2:00 PM", "4:00 PM", "6:00 PM">>
                  /\ HasMockMarker(th[t].gw_result.message)
                  /\ th[t].result.value =
                       (IF th[t].op = "tool_check_availability"
                        THEN th[t].gw_result.message ELSE th[t].gw_result)
          /\ (~th[t].request_failed /\ "gw_result" \in DOMAIN th[t])
               => ~HasMockMarker(th[t].gw_result.message)

C10_Witness ==
    \E t \in Threads :
       /\ Done(t)
       /\ th[t].op = "endpoint_availability"
       /\ th[t].request_failed
       /\ th[t].gw_result = MockAvailability
       /\ th[t].result = Returned(MockAvailability)

\* C11: when the booking request fails (unreachable or non-2xx) with a token
\* in hand, create_booking does not raise: it returns success, a booking_id
\* that starts with MOCK-, the placeholder checkout URL and status
\* pending_payment; a result built from a provider answer has no MOCK- id.
C11_BookingFallback ==
    \A t \in Threads :
       (Done(t) /\ th[t].gw = "create_booking")
       => /\ th[t].request_failed
               => /\ th[t].result.kind = "return"
                  /\ "gw_result" \in DOMAIN th[t]
                  /\ th[t].gw_result.success
                  /\ StartsWith(th[t].gw_result.booking_id, "MOCK-")
                  /\ th[t].gw_result.checkout_url =
                        "https://checkout.roller.app/mock-payment-link"
                  /\ th[t].gw_result.booking.status = "pending_payment"
          /\ (~th[t].request_failed /\ "gw_result" \in DOMAIN th[t])
               => ~StartsWith(th[t].gw_result.booking_id, "MOCK-")

C11_Witness ==
    \E t \in Threads :
       /\ Done(t)
       /\ th[t].gw = "create_booking"
       /\ th[t].request_failed
       /\ th[t].net = <<"token", "bookings">>
       /\ th[t].gw_result.booking_id = "MOCK-1000"

\* C13: the create_booking tool sends nothing to the booking endpoint for a
\* package outside the catalog, a count below the package minimum, a
\* Glo Party date that is not a Friday or Saturday, or a date that does not
\* parse.
C13_BookingValidatedBeforeSubmission ==
    \A t \in Threads :
       (/\ Done(t)
        /\ th[t].op = "tool_create_booking"
        /\ (InvalidRequest(th[t]) \/ Raises(Strptime(th[t].date))))
       => \A i \in 1..Len(th[t].net) : th[t].net[i] # "bookings"

\* C14: get_booking_status does not raise when the provider cannot be
\* reached: if its token exchange or its status request fails, it returns a
\* result whose status is unknown.
C14_StatusUnknownWhenUnreachable ==
    \A t \in Threads :
       (/\ Done(t)
        /\ th[t].gw = "get_booking_status"
        /\ (th[t].auth_failed \/ th[t].request_failed))
       => /\ th[t].result.kind = "return"
          /\ th[t].result.value.status = "unknown"

\* C15: every gateway operation that has started (token exchange,
\* check_availability, create_booking, get_booking_status, get_products)
\* eventually returns or raises, even if the provider never answers.
C15_EveryCallReturns ==
    \A t \in {"t1"} : (th[t].pc \notin {"idle", "done"}) ~> Done(t)

(***************************************************************************)
(* Claims about the token cache (SpecToken, SpecConc).                     *)
(***************************************************************************)
\* C24: for every catalog package P and a headcount P accepts, the
\* check_availability tool refuses a date that parses, with the
\* restricted-day error and without a network call, exactly when P's catalog
\* entry has restriction days and the date's weekday is not one of them;
\* otherwise the tool goes on to the gateway.
C24_DayGateFollowsCatalog ==
    \A t \in Threads :
       (/\ Done(t)
        /\ th[t].op = "tool_check_availability"
        /\ th[t].package_name \in DOMAIN PACKAGES
        /\ th[t].num_jumpers >= PACKAGES[th[t].package_name].min_jumpers
        /\ ~Raises(Strptime(th[t].date)))
       => LET days == PACKAGES[th[t].package_name].restrictions_days
              weekday == DayName(Strptime(th[t].date))
              restricted == /\ days # NoRestriction
                            /\ \A i \in 1..Len(days) : days[i] # weekday
              refused == /\ th[t].result.kind = "return"
                         /\ th[t].result.value[1] = RestrictedDayText
                         /\ th[t].net = <<>>
          IN  /\ refused <=> restricted
              /\ ~restricted => th[t].net # <<>>

\* Glo Party is refused on a Wednesday
C24_Witness ==
    /\ Done("t1")
    /\ th["t1"].op = "tool_check_availability"
    /\ th["t1"].package_name = "Glo Party"
    /\ th["t1"].num_jumpers = 10
    /\ th["t1"].date = Iso(2025, 1, 15)
    /\ th["t1"].result.value[1] = RestrictedDayText
    /\ th["t1"].result.value[2] = "Wednesday"
    /\ th["t1"].net = <<>>

\* a match of https?://[^\s]+ can begin at position j of text
UrlBeginsAt(text, j) ==
    \E scheme \in {"http://", "https://"} :
       /\ j + Len(scheme) <= Len(text)
       /\ SubSeq(text, j, j + Len(scheme) - 1) = scheme
       /\ SubSeq(text, j + Len(scheme), j + Len(scheme)) \notin Whitespace

\* C25: in every 200 response of POST /chat, booking_created is true
\* exactly when the lowercased reply contains "checkout" or "booking
\* created"; checkout_url is null when booking_created is false or the reply
\* holds no http(s) URL, and otherwise it is the reply's leftmost URL, from
\* its scheme up to the next whitespace or the end of the reply.
C25_BookingFlagAndUrl ==
    (chat.pc = "responded" /\ chat.response.status = 200) =>
       LET text == chat.response.response
           lowered == Lower(text)
           said == \/ StrContains(lowered, "checkout")
                   \/ StrContains(lowered, "booking created")
           url == chat.response.checkout_url
           n == Len(text)
       IN  /\ chat.response.booking_created = said
           /\ ~said => url = None
           /\ (said /\ url = None) => \A j \in 1..n : ~UrlBeginsAt(text, j)
           /\ url # None =>
                 \E i \in 1..n :
                    /\ UrlBeginsAt(text, i)
                    /\ \A j \in 1..(i - 1) : ~UrlBeginsAt(text, j)
                    /\ SubSeq(text, i, i + Len(url) - 1) = url
                    /\ \A k \in 1..Len(url) : SubSeq(url, k, k) \notin Whitespace
                    /\ \/ i + Len(url) = n + 1
                       \/ SubSeq(text, i + Len(url), i + Len(url)) \in Whitespace

\* a reply with the phrase in capitals and two URLs
C25_Witness ==
    /\ chat.pc = "responded"
    /\ chat.response.status = 200
    /\ chat.response.response
          = "CHECKOUT here:\thttps://pay.example/a\nor http://pay.example/b"
    /\ chat.response.booking_created = TRUE
    /\ chat.response.checkout_url = "https://pay.example/a"

\* a check_availability call that the provider answered has come to its end
ProviderAnswered(t) ==
    /\ Done(t)
    /\ th[t].gw = "check_availability"
    /\ "answer" \in DOMAIN th[t]

\* C22: when the provider answers the availability request, the returned
\* times have the length of the provider's availableSlots and their i-th
\* element is the time of the provider's i-th slot (the empty text for a
\* slot without one), the slots are the provider's; an empty list gives
\* available false with empty slots and times, never the fallback slots.
C22_TimesInProviderOrder ==
    \A t \in Threads :
       ProviderAnswered(t) =>
          LET a == th[t].answer
              r == th[t].gw_result
          IN  /\ Len(r.times) = Len(a)
              /\ \A i \in 1..Len(a) :
                    r.times[i] = IF "time" \in DOMAIN a[i] THEN a[i].time ELSE ""
              /\ r.slots = a
              /\ a = <<>> => /\ r.available = FALSE
                             /\ r.times = <<>>
                             /\ r # MockAvailability

\* the provider answered two slots, the later one first
C22_Witness ==
    /\ ProviderAnswered("t1")
    /\ th["t1"].answer = <<[time |-> "12:00", available |-> FALSE],
                           [time |-> "10:00", available |-> TRUE]>>
    /\ th["t1"].gw_result.times = <<"12:00", "10:00">>

\* C23: every availability request that reaches the provider carries the
\* date, a product identifier and the capacity of the check.
C23_QueryIdentifiesPackage ==
    \A t \in Threads :
       (/\ Done(t)
        /\ th[t].gw = "check_availability"
        /\ \E i \in 1..Len(th[t].net) : th[t].net[i] = "availability")
       => /\ th[t].query.date = th[t].date
          /\ "productId" \in DOMAIN th[t].query
          /\ "capacity" \in DOMAIN th[t].query
          /\ th[t].query.capacity = th[t].num_jumpers

\* C29: when the provider answers the availability request, every time
\* label of the result is the time of a slot the provider marked available,
\* and the result says available only if the provider marked a slot so.
C29_OnlyAvailableSlotsOffered ==
    \A t \in Threads :
       ProviderAnswered(t) =>
          LET a == th[t].answer
              r == th[t].gw_result
          IN  /\ \A i \in 1..Len(r.times) :
                    \E j \in 1..Len(a) :
                       /\ a[j].available
                       /\ r.times[i] = IF "time" \in DOMAIN a[j] THEN a[j].time
                                       ELSE ""
              /\ r.available => \E j \in 1..Len(a) : a[j].available

\* C6: on a client used by one caller at a time, a _get_access_token call
\* that finds a cached token with now < expiresAt - 300 returns that token
\* and sends nothing to the token endpoint; a call that finds no token, or
\* now >= expiresAt - 300, sends exactly one exchange and, when it succeeds,
\* leaves the new token cached with expiresAt = now + expires_in (3600 when
\* the answer has no expires_in).
C6_TokenLifecycle ==
    \A t \in Threads :
       (Done(t) /\ th[t].gw = "_get_access_token")
       => LET s == th[t].seen
              c == clients[Shared]
          IN  IF s.access_token # NoToken /\ s.at < s.token_expires_at - 300
              THEN /\ th[t].result = Returned(s.access_token)
                   /\ th[t].net = <<>>
                   /\ c.access_token = s.access_token
                   /\ c.token_expires_at = s.token_expires_at
              ELSE /\ th[t].net = <<"token">>
                   /\ th[t].result.kind = "return"
                        => /\ th[t].result.value = Len(issued)
                           /\ c.access_token = Len(issued)
                           /\ c.token_expires_at = th[t].stored_at +
                                (IF "expires_in" \in DOMAIN issued[Len(issued)]
                                 THEN issued[Len(issued)].expires_in ELSE 3600)

\* a refresh made exactly when the cached token enters the 5 minute margin
C6_Witness ==
    \E t \in Threads :
       /\ Done(t)
       /\ th[t].gw = "_get_access_token"
       /\ th[t].seen.access_token = 1
       /\ th[t].seen.at = th[t].seen.token_expires_at - 300
       /\ th[t].net = <<"token">>
       /\ th[t].result = Returned(2)
       /\ clients[Shared].access_token = 2

\* C27: on a client used by one caller at a time, a _get_access_token call
\* whose exchange fails raises and leaves _access_token and
\* _token_expires_at as the call found them, and what it leaves is not a
\* fresh token, so the next call that needs a token exchanges again.
C27_FailedExchangeLeavesCache ==
    \A t \in Threads :
       (Done(t) /\ th[t].gw = "_get_access_token" /\ th[t].auth_failed)
       => LET s == th[t].seen
              c == clients[Shared]
          IN  /\ th[t].result.kind = "raise"
              /\ c.access_token = s.access_token
              /\ c.token_expires_at = s.token_expires_at
              /\ ~(c.access_token # NoToken /\ now < c.token_expires_at - 300)

\* the exchange fails while a token that has gone stale is cached
C27_Witness ==
    /\ Done("t1")
    /\ th["t1"].gw = "_get_access_token"
    /\ th["t1"].auth_failed
    /\ th["t1"].seen.access_token = 1
    /\ th["t1"].seen.at >= th["t1"].seen.token_expires_at - 300
    /\ clients[Shared].access_token = 1
    /\ clients[Shared].token_expires_at = th["t1"].seen.token_expires_at

\* C21: every webhook call with event payment.success is answered
\* processed with the payload's booking_id and has a payment-confirmation
\* mail for that booking handed to the mail service; a call with any other
\* event is answered received and adds no mail.
C21_WebhookAcknowledgesAndMails ==
    hook.pc = "answered" =>
       IF "event" \in DOMAIN hook.payload /\ hook.payload.event = "payment.success"
       THEN /\ hook.response.status = "processed"
            /\ hook.response.booking_id
                 = (IF "booking_id" \in DOMAIN hook.payload
                    THEN hook.payload.booking_id ELSE None)
            /\ \E mail \in outbox :
                  /\ mail.kind = "payment_confirmation"
                  /\ mail.booking_id = hook.response.booking_id
       ELSE /\ hook.response = [status |-> "received"]
            /\ outbox = {}

\* create_booking has returned success to caller t
BookingReturned(t) ==
    /\ Done(t)
    /\ th[t].gw = "create_booking"
    /\ "gw_result" \in DOMAIN th[t]
    /\ th[t].gw_result.success

\* C28: two create_booking calls that both return success return different
\* booking_id values when at least one of them went through the fallback
\* (two identifiers that both come from the provider are the provider's to
\* keep apart).
C28_BookingIdsUnique ==
    (/\ BookingReturned("t1")
     /\ BookingReturned("t2")
     /\ th["t1"].request_failed \/ th["t2"].request_failed)
    => th["t1"].gw_result.booking_id # th["t2"].gw_result.booking_id

CountOf(seq, x) == Cardinality({i \in 1..Len(seq) : seq[i] = x})

\* C26: for every POST /chat request the frontend has sent, the
\* conversation_history is the list of turns that came before the message,
\* so the model input the agent builds from the request (the converted
\* history, then the message) holds the message as a human message once
\* more than the earlier turns do.
C26_HistoryHoldsPriorTurns ==
    \A k \in 1..Len(front.posts) :
       LET post == front.posts[k]
           prior == SubSeq(front.messages, 1, 2 * (k - 1))
           input == InvokeMessages(ConvertHistory(post.conversation_history),
                                   post.message)
           current == HumanMessage(post.message)
       IN  /\ Len(post.conversation_history) = Len(prior)
           /\ \A i \in 1..Len(prior) : post.conversation_history[i] = prior[i]
           /\ CountOf(input, current) = CountOf(ConvertHistory(prior), current) + 1

\* C30: a transcript submitted with Send is sent to POST /chat, and added
\* to the messages as a user turn, no more often than it was submitted, and
\* exactly as often once no rerun is pending.
C30_TranscriptProcessedOnce ==
    \A transcript \in Transcripts :
       LET submitted == CountOf(front.sends, transcript)
           posted == Cardinality({i \in 1..Len(front.posts) :
                                    front.posts[i].message = transcript})
           shown == CountOf(front.messages, Turn("user", transcript))
       IN  /\ posted <= submitted
           /\ shown <= submitted
           /\ ~front.rerun => posted = submitted /\ shown = submitted

AllQuiet == \A t \in Threads : th[t].pc \in {"idle", "done"}

\* C7: when callers run _get_access_token concurrently on the shared client,
\* the token cached once all of them have finished is the one of the newest
\* successful exchange.
C7_NewestExchangeStaysCached ==
    (AllQuiet /\ issued # <<>>) => clients[Shared].access_token = Len(issued)

MidUpdate(t) == th[t].pc \in {"tok_store_token", "tok_store_expiry"}

\* C8: whenever no refresh is between receiving its answer and finishing its
\* update, the cached expiry was computed from the exchange that gave the
\* cached token.
C8_CachedPairFromOneExchange ==
    (\A t \in Threads : ~MidUpdate(t))
    => clients[Shared].expiry_from = clients[Shared].access_token

(***************************************************************************)
(* Claims about the chat turn (SpecChat).                                  *)
(***************************************************************************)
\* the tool messages of the current turn that carry a fallback booking
MockBookingInTurn ==
    \E i \in 1..Len(chat.messages) :
       /\ chat.messages[i].type = "tool"
       /\ chat.messages[i].name = "create_booking"
       /\ chat.messages[i].mock

\* C12: a fallback booking is not presented as a payable checkout: the
\* create_booking tool does not reply to it with the success text and the
\* placeholder link, and POST /chat does not answer a turn in which it was
\* made with booking_created = true and checkout_url = the placeholder URL.
C12_MockBookingNotPresentedAsCheckout ==
    /\ \A t \in Threads :
          (/\ Done(t)
           /\ th[t].op = "tool_create_booking"
           /\ th[t].request_failed)
          => ~(/\ StrContains(th[t].result.value, "Booking created successfully")
               /\ StrContains(th[t].result.value, MockCheckoutUrl))
    /\ (/\ chat.pc = "responded"
        /\ chat.response.status = 200
        /\ MockBookingInTurn)
       => ~(/\ chat.response.booking_created
            /\ chat.response.checkout_url = MockCheckoutUrl)

\* C16: when the model invocation raises (a tool's exception included) or
\* answers with nothing, the output of AgentWrapper.invoke is the fixed
\* apology and does not contain the text of the exception.
C16_FailureGivesFixedApology ==
    (/\ chat.pc \in {"invoked", "responded"}
     /\ "failure" \in DOMAIN chat
     /\ chat.failure # <<>>)
    => /\ chat.output = EmptyOutputText
       /\ chat.failure[1] # "" => ~StrContains(chat.output, chat.failure[1])

\* C17: a response of POST /chat with status 500 does not contain the text
\* of the exception that caused it; that text is in the diagnostic log.
C17_ErrorResponseSanitized ==
    (chat.pc = "responded" /\ chat.response.status = 500)
    => /\ ~StrContains(chat.response.detail, chat.exc)
       /\ \E line \in errlog : StrContains(line, chat.exc)

\* the text says yes or confirms
Affirmative(text) ==
    \/ StrContains(Lower(text), "yes")
    \/ StrContains(Lower(text), "confirm")

UserConfirmed ==
    \/ Affirmative(chat.message)
    \/ \E i \in 1..Len(chat.conversation_history) :
          /\ chat.conversation_history[i].role = "user"
          /\ Affirmative(chat.conversation_history[i].content)

\* C18: in a chat turn a booking is sent to the booking endpoint only if
\* the current message or a user turn of the supplied history contains an
\* affirmative confirmation.
C18_BookingOnlyAfterConfirmation ==
    \A t \in Threads :
       (/\ chat.pc = "tool"
        /\ chat.call.name = "create_booking"
        /\ Done(t)
        /\ \E i \in 1..Len(th[t].net) : th[t].net[i] = "bookings")
       => UserConfirmed

\* C19: whenever the create_booking tool is called, check_availability has
\* been called before with the same date, package and count.
C19_BookingAfterAvailabilityCheck ==
    (chat.pc = "tool" /\ chat.call.name = "create_booking")
    => [date |-> chat.call.date, package_name |-> chat.call.package_name,
        num_jumpers |-> chat.call.num_jumpers] \in checked

IsChatTurn(turn) == turn.role \in {"user", "assistant"}

\* C20: the message list handed to the model in a chat call is the user and
\* assistant turns of that call's conversation_history, in order, followed
\* by the call's message as a human message, and nothing else; the
\* reconstructed history stays what it was.
C20_HandedMessagesAreThisCallsHistory ==
    "handed" \in DOMAIN chat
    => LET turns == SelectSeq(chat.conversation_history, IsChatTurn)
           n == Len(turns)
       IN  /\ Len(chat.handed) = n + 1
           /\ \A i \in 1..n :
                 /\ chat.handed[i].content = turns[i].content
                 /\ chat.handed[i].type =
                      (IF turns[i].role = "user" THEN "human" ELSE "ai")
           /\ chat.handed[n + 1] = [type |-> "human", content |-> chat.message]
           /\ chat.chat_history = SubSeq(chat.handed, 1, n)

\* a later call, served after a turn that used the gateway, whose history
\* holds a turn of another role
C20_Witness ==
    /\ "handed" \in DOMAIN chat
    /\ issued # <<>>
    /\ chat.steps = 0
    /\ Len(chat.conversation_history) = 3
    /\ Len(chat.handed) = 3
    /\ chat.handed[3].content = "What packages do you have?"

=============================================================================
